---- MODULE Spec2Model ----
(***************************************************************************)
(* remark-shiki-highlight-api: the remark transform of src/index.ts.       *)
(*                                                                         *)
(* remarkHighlightApi(options) returns an async transform(tree).  The      *)
(* module-level state (blockCounter, loadedLanguages) is shared by every   *)
(* plugin instance and every transform call of the process; the flag       *)
(* languagesLoaded belongs to one plugin instance.  A transform call is a  *)
(* coroutine on the single JavaScript thread: the code between two awaits  *)
(* runs atomically, and calls interleave only at the awaits (the           *)
(* loadLanguages hook, the import of a bundled grammar, loadCustomLanguage *)
(* and codeToHighlightHtml).  Every awaited call may return or raise.      *)
(***************************************************************************)
EXTENDS Integers, Sequences, FiniteSets, TLC

\* ------------------------------------------------------------------------
\* Bounds
\* ------------------------------------------------------------------------

\* number of transform calls made in the process
MaxCalls == 2

\* number of transform calls that may be in flight at the same time
MaxOverlap == 2

\* number of code blocks in all the documents handed to the process
MaxBlocks == 4

\* number of awaited external calls that raise
MaxRaises == 1

\* number of fragments a meta string is put together from
MaxFragments == 2

\* a call occupies a slot from its start until the next call reuses the slot
Calls == 1..MaxOverlap

\* ------------------------------------------------------------------------
\* Plugin instances, languages, documents
\* ------------------------------------------------------------------------

\* plugin instances: instance 1 is configured with loadLanguages, 2 is not
Instances == {1, 2}

loadLanguages(i) == i = 1

\* `lang in bundledLanguages`: the grammars shiki ships
bundledLanguages == {"js", "ts"}

\* the lineNumbers option of a plugin instance: absent, true, or { start: n }
Absent == << >>

LineNumbersTrue == << "true" >>

LineNumbersStart(n) == << "start", n >>

globalLineNumbers(i) == IF i = 1 THEN Absent ELSE LineNumbersStart(100)

\* mdast nodes.  A code node carries lang, value and meta; "" is an absent
\* lang, << >> an absent or empty meta.  A container node refers to the
\* children collection `ref`.
Code(id, lang, meta) ==
    [id |-> id, lang |-> lang, meta |-> meta, type |-> "code", value |-> id]

Para(id) == [id |-> id, type |-> "paragraph"]

Parent(id, ref) == [id |-> id, ref |-> ref, type |-> "blockquote"]

Html(value) == [type |-> "html", value |-> value]

\* the children collections of a tree: 0 is the root's, 1 and 2 belong to
\* the container nodes
Parents == 0..2

\* meta strings of the code fences, one symbol per character or keyword
MetaStart == << "lineNumbers", ":", "5" >>

MetaFlag == << "showLineNumbers" >>

MetaHighlight == << "{", "1", ",", "3", "}" >>

MetaHugeFocus ==
    << "focus", "{", "1", "-",
       "9", "9", "9", "9", "9", "9", "9", "9", "9", "9", "9", "}" >>

\* two adjacent code blocks of one language in one parent
DocFlat ==
    [p \in Parents |->
        IF p = 0
        THEN << Para("p1"), Code("a", "js", MetaStart), Code("b", "js", << >>),
                Para("p2") >>
        ELSE << >>]

\* code blocks spread over the root and two nested containers: no language,
\* two bundled languages and one that is not bundled
DocNested ==
    [p \in Parents |->
        IF p = 0
        THEN << Parent("q1", 1), Code("a", "", MetaHighlight) >>
        ELSE IF p = 1
        THEN << Code("b", "ts", << >>), Parent("q2", 2), Para("p1"),
                Code("d", "js", << >>) >>
        ELSE << Code("c", "custom", MetaFlag) >>]

\* a block tagged 'text' whose focus range is too long for an array
DocText ==
    [p \in Parents |->
        IF p = 0 THEN << Code("m", "text", MetaHugeFocus) >> ELSE << >>]

\* no code block at all
DocPlain == [p \in Parents |-> IF p = 0 THEN << Para("p1") >> ELSE << >>]

Docs == {DocFlat, DocNested, DocText, DocPlain}

\* ------------------------------------------------------------------------
\* Pure helpers
\* ------------------------------------------------------------------------

\* visit(tree, 'code', visitor): the code nodes of the tree in preorder,
\* each with its 0-based index in its parent's children
RECURSIVE VisitFrom(_, _, _)
VisitFrom(t, p, i) ==
    IF i >= Len(t[p])
    THEN << >>
    ELSE LET n == t[p][i + 1]
         IN  (IF n.type = "code"
              THEN << [node |-> n, index |-> i, parent |-> p] >>
              ELSE IF n.type = "blockquote"
                   THEN VisitFrom(t, n.ref, 0)
                   ELSE << >>)
             \o VisitFrom(t, p, i + 1)

visit(t) == VisitFrom(t, 0, 0)

\* an array in place of the Set: one entry per code block
SetAddDuplicates(s, e) == Append(s, e)

\* detectedLanguages.add(lang): a Set keeps insertion order, no duplicates
SetAdd(s, e) == IF \E k \in 1..Len(s) : s[k] = e THEN s ELSE Append(s, e)

\* first pass: the languages of the code nodes, but not absent and not 'text'
RECURSIVE CollectLanguages(_, _)
CollectLanguages(blocks, acc) ==
    IF blocks = << >>
    THEN acc
    ELSE LET lang == Head(blocks).node.lang
         IN  CollectLanguages(Tail(blocks),
                 IF lang # "" /\ lang # "text" THEN SetAdd(acc, lang) ELSE acc)

detectedLanguages(t) == CollectLanguages(visit(t), << >>)

\* codeBlocks.sort((a, b) => b.index - a.index): stable, descending by index
RECURSIVE InsertDesc(_, _)
RECURSIVE InsertAsc(_, _)
\* the comparison turned round: ascending by index
InsertAsc(s, e) ==
    IF s = << >>
    THEN << e >>
    ELSE IF Head(s).index <= e.index
         THEN << Head(s) >> \o InsertAsc(Tail(s), e)
         ELSE << e >> \o s

InsertDesc(s, e) ==
    IF s = << >>
    THEN << e >>
    ELSE IF Head(s).index >= e.index
         THEN << Head(s) >> \o InsertDesc(Tail(s), e)
         ELSE << e >> \o s

RECURSIVE sort(_)
\* the transform before 0.3.1: codeBlocks left in visit order
sortMissing(s) == s

sort(s) ==
    IF s = << >>
    THEN << >>
    ELSE InsertDesc(sort(SubSeq(s, 1, Len(s) - 1)), s[Len(s)])

\* the second pass alone: the blocks in document order
collectCodeBlocksDocumentOrder(t) == visit(t)

\* second pass and sort
collectCodeBlocks(t) == sort(visit(t))

\* children.splice(index, deleteCount, ...items), index 0-based
splice(children, index, deleteCount, items) ==
    LET start == IF index > Len(children) THEN Len(children) ELSE index
        stop  == IF start + deleteCount > Len(children)
                 THEN Len(children) ELSE start + deleteCount
    IN  SubSeq(children, 1, start) \o items
            \o SubSeq(children, stop + 1, Len(children))

\* ------------------------------------------------------------------------
\* parseMetaString
\* ------------------------------------------------------------------------

\* A meta string is a sequence of symbols: a symbol is one character, or one
\* of the three keywords the parser looks for, written as a unit.  No string
\* of the model spells a keyword out in single characters, and
\* 'showLineNumbers' does not contain 'lineNumbers' (capital L), so a keyword
\* occurs in the string exactly where its symbol stands.
Keywords == {"focus", "showLineNumbers", "lineNumbers"}

Digits == {"0", "1", "2", "3", "4", "5", "6", "7", "8", "9"}

DigitValue(ch) ==
    CASE ch = "0" -> 0 [] ch = "1" -> 1 [] ch = "2" -> 2 [] ch = "3" -> 3
      [] ch = "4" -> 4 [] ch = "5" -> 5 [] ch = "6" -> 6 [] ch = "7" -> 7
      [] ch = "8" -> 8 [] ch = "9" -> 9

\* an optional value that is present; Absent is << >>
Some(v) == << v >>

\* Number.NaN, the result of parseInt on a string without a leading digit
NaN == 0 - 1

\* the character classes [0-9,-] and [0-9,]
RangeListClass == Digits \cup {",", "-"}

ListClass == Digits \cup {","}

\* X+ at position i: the length of the longest run of class symbols
RECURSIVE Run(_, _, _)
Run(s, i, class) ==
    IF i <= Len(s) /\ s[i] \in class THEN 1 + Run(s, i + 1, class) ELSE 0

\* String.prototype.match with a non-global pattern: the capture group of the
\* leftmost match.  A pattern is given by its fixed prefix, the class of its
\* greedy group and whether a closing brace must follow the group; the class
\* holds no brace, so the group is the whole run.
MatchesAt(s, i, prefix, class, closed) ==
    LET n == Len(prefix)
        r == Run(s, i + n, class)
    IN  /\ i + n - 1 <= Len(s)
        /\ SubSeq(s, i, i + n - 1) = prefix
        /\ r >= 1
        /\ closed => (i + n + r <= Len(s) /\ s[i + n + r] = "}")

\* the capture group of the second match from the left when there are several
matchSecond(s, prefixes, class, closed) ==
    LET at(i) == {p \in prefixes : MatchesAt(s, i, p, class, closed)}
        P == {i \in 1..Len(s) : at(i) # {}}
    IN  IF P = {}
        THEN Absent
        ELSE LET f == CHOOSE j \in P : \A k \in P : j <= k
                 Q == IF P = {f} THEN P ELSE P \ {f}
                 i == CHOOSE j \in Q : \A k \in Q : j <= k
                 p == CHOOSE q \in at(i) : TRUE
                 n == Len(p)
             IN  Some(SubSeq(s, i + n, i + n + Run(s, i + n, class) - 1))

\* the capture group of the rightmost match
matchLast(s, prefixes, class, closed) ==
    LET at(i) == {p \in prefixes : MatchesAt(s, i, p, class, closed)}
        P == {i \in 1..Len(s) : at(i) # {}}
    IN  IF P = {}
        THEN Absent
        ELSE LET i == CHOOSE j \in P : \A k \in P : j >= k
                 p == CHOOSE q \in at(i) : TRUE
                 n == Len(p)
             IN  Some(SubSeq(s, i + n, i + n + Run(s, i + n, class) - 1))

match(s, prefixes, class, closed) ==
    LET at(i) == {p \in prefixes : MatchesAt(s, i, p, class, closed)}
        P == {i \in 1..Len(s) : at(i) # {}}
    IN  IF P = {}
        THEN Absent
        ELSE LET i == CHOOSE j \in P : \A k \in P : j <= k
                 p == CHOOSE q \in at(i) : TRUE
                 n == Len(p)
             IN  Some(SubSeq(s, i + n, i + n + Run(s, i + n, class) - 1))

\* meta.includes(keyword)
includes(s, sym) == \E i \in 1..Len(s) : s[i] = sym

\* String.prototype.split(sep) for a one-character separator
RECURSIVE split(_, _)
split(s, sep) ==
    IF includes(s, sep)
    THEN LET k == CHOOSE j \in 1..Len(s) :
                      s[j] = sep /\ \A h \in 1..(j - 1) : s[h] # sep
         IN  << SubSeq(s, 1, k - 1) >> \o split(SubSeq(s, k + 1, Len(s)), sep)
    ELSE << s >>

\* String.prototype.trim: white space removed at both ends
RECURSIVE trim(_)
trim(s) ==
    IF s # << >> /\ Head(s) = " " THEN trim(Tail(s))
    ELSE IF s # << >> /\ s[Len(s)] = " " THEN trim(SubSeq(s, 1, Len(s) - 1))
    ELSE s

\* the value of a run of decimal digits
RECURSIVE DigitsValue(_)
DigitsValue(ds) ==
    IF ds = << >>
    THEN 0
    ELSE DigitsValue(SubSeq(ds, 1, Len(ds) - 1)) * 10 + DigitValue(ds[Len(ds)])

\* parseInt(s, 10) on an unsigned string: the value of the leading digits,
\* NaN when there is none
parseInt(s) ==
    LET r == Run(s, 1, Digits)
    IN  IF r = 0 THEN NaN ELSE DigitsValue(SubSeq(s, 1, r))

\* list.split(',').map((n) => parseInt(n.trim(), 10))
RECURSIVE MapParseInt(_)
MapParseInt(parts) ==
    IF parts = << >>
    THEN << >>
    ELSE << parseInt(trim(Head(parts))) >> \o MapParseInt(Tail(parts))

\* the list read as one number, without the split
parseListUnsplit(s) == << parseInt(trim(s)) >>

parseList(s) == MapParseInt(split(s, ","))

\* the digits parseInt reads, without leading zeros
RECURSIVE Significant(_)
Significant(ds) ==
    IF ds # << >> /\ Head(ds) = "0" THEN Significant(Tail(ds)) ELSE ds

Magnitude(s) == Len(Significant(SubSeq(s, 1, Run(s, 1, Digits))))

\* 2^32 - 1, the largest length of an Array, has ten decimal digits
ArrayLengthDigits == 10

\* Array.from({ length: end - start + 1 }, ...) raises RangeError when the
\* length exceeds 2^32 - 1.  The numbers are compared by their digit counts:
\* an end of more than ten digits less a start of fewer than ten digits is
\* above the limit; the digit runs of the model's strings are either that
\* long or short enough to leave the length far below the limit.
InvalidArrayLength(startS, endS) ==
    /\ Run(startS, 1, Digits) > 0
    /\ Run(endS, 1, Digits) > 0
    /\ Magnitude(endS) > ArrayLengthDigits
    /\ Magnitude(startS) < ArrayLengthDigits

\* the range taken in either direction: end-start read as start-end
ArrayFromEitherWay(start, end) ==
    IF start = NaN \/ end = NaN
    THEN << >>
    ELSE IF end >= start
    THEN [i \in 1..(end - start + 1) |-> start + (i - 1)]
    ELSE [i \in 1..(start - end + 1) |-> end + (i - 1)]

\* Array.from({ length: end - start + 1 }, (_, i) => start + i): a NaN or
\* negative length gives the empty array
ArrayFrom(start, end) ==
    IF start = NaN \/ end = NaN \/ end - start + 1 <= 0
    THEN << >>
    ELSE [i \in 1..(end - start + 1) |-> start + (i - 1)]

\* the callback of flatMap raises for this part
FocusPartRaises(part) ==
    /\ includes(part, "-")
    /\ LET n == split(part, "-")
       IN  InvalidArrayLength(trim(n[1]), trim(n[2]))

\* the callback of flatMap: a part with a hyphen is a range start-end
FocusPart(part) ==
    IF includes(part, "-")
    THEN LET n == MapParseInt(split(part, "-"))
         IN  ArrayFrom(n[1], n[2])
    ELSE << parseInt(trim(part)) >>

RECURSIVE flatMapFocus(_)
flatMapFocus(parts) ==
    IF parts = << >>
    THEN << >>
    ELSE FocusPart(Head(parts)) \o flatMapFocus(Tail(parts))

\* the options object: every field optional
NoOptions ==
    [raised         |-> FALSE,
     highlightLines |-> Absent,
     lineNumbers    |-> Absent,
     diffLines      |-> Absent,
     focusLines     |-> Absent]

\* the call ended by raising: there is no options object
ParseRaised == [NoOptions EXCEPT !.raised = TRUE]

\* the flag test with the second word left out
lineNumbersFlagShowOnly(meta) == includes(meta, "showLineNumbers")

\* the flag test answering yes for every string
lineNumbersFlagAlways(meta) == TRUE

\* meta.includes('showLineNumbers') || meta.includes('lineNumbers')
lineNumbersFlag(meta) ==
    includes(meta, "showLineNumbers") \/ includes(meta, "lineNumbers")

parseMetaString(meta) ==
    LET highlightMatch  == match(meta, {<< "{" >>}, RangeListClass, TRUE)
        numbered        == lineNumbersFlag(meta)
        startMatch      == match(meta, {<< "showLineNumbers", ":" >>,
                                        << "lineNumbers", ":" >>},
                                 Digits, FALSE)
        diffAddMatch    == match(meta, {<< "+" >>}, ListClass, FALSE)
        diffRemoveMatch == match(meta, {<< "-" >>}, ListClass, FALSE)
        focusMatch      == match(meta, {<< "focus", "{" >>},
                                 RangeListClass, TRUE)
        parts           == split(focusMatch[1], ",")
    IN  IF meta = << >>
        THEN NoOptions
        ELSE IF /\ focusMatch # Absent
                /\ \E k \in 1..Len(parts) : FocusPartRaises(parts[k])
        THEN ParseRaised
        ELSE [raised         |-> FALSE,
              highlightLines |-> highlightMatch,
              lineNumbers    |->
                  IF ~numbered THEN Absent
                  ELSE IF startMatch = Absent THEN LineNumbersTrue
                  ELSE LineNumbersStart(parseInt(startMatch[1])),
              diffLines      |->
                  IF diffAddMatch = Absent /\ diffRemoveMatch = Absent
                  THEN Absent
                  ELSE Some([added   |-> IF diffAddMatch = Absent
                                         THEN Absent
                                         ELSE Some(parseList(diffAddMatch[1])),
                             removed |-> IF diffRemoveMatch = Absent
                                         THEN Absent
                                         ELSE Some(parseList(diffRemoveMatch[1]))]),
              focusLines     |->
                  IF focusMatch = Absent
                  THEN Absent
                  ELSE Some(flatMapFocus(parts))]

\* ------------------------------------------------------------------------
\* The render call
\* ------------------------------------------------------------------------

\* theme option of a plugin instance (default 'dark-plus')
theme(i) == IF i = 1 THEN "dark-plus" ELSE "github-dark"

\* node.lang passed on as it is
langUnchanged(node) == node.lang

\* const lang = node.lang || 'text'
langOrText(node) == IF node.lang # "" THEN node.lang ELSE "text"

\* the global option first, the block's own value only without one
lineNumbersGlobalFirst(metaOptions, i) ==
    IF globalLineNumbers(i) # Absent
    THEN globalLineNumbers(i)
    ELSE metaOptions.lineNumbers

\* lineNumbers: metaOptions.lineNumbers ?? globalLineNumbers, and then the
\* spread ...metaOptions, which sets lineNumbers again when the meta has it
lineNumbersOption(metaOptions, i) ==
    LET coalesced == IF metaOptions.lineNumbers # Absent
                     THEN metaOptions.lineNumbers
                     ELSE globalLineNumbers(i)
    IN  IF metaOptions.lineNumbers # Absent
        THEN metaOptions.lineNumbers
        ELSE coalesced

\* the arguments of one codeToHighlightHtml call; metaOptions is the result
\* of parseMetaString(node.meta), which did not raise
RenderRequest(b, i, blockId, metaOptions) ==
    [id             |-> b.node.id,
     code           |-> b.node.value,
     lang           |-> langOrText(b.node),
     theme          |-> theme(i),
     blockId        |-> blockId,
     lineNumbers    |-> lineNumbersOption(metaOptions, i),
     highlightLines |-> metaOptions.highlightLines,
     diffLines      |-> metaOptions.diffLines,
     focusLines     |-> metaOptions.focusLines]

\* the result of a successful codeToHighlightHtml call: three payloads, each
\* carrying the block label
codeToHighlightHtml(req) ==
    [html   |-> << "markup", req.blockId, req.code, req.lang, req.theme >>,
     css    |-> << "style", req.blockId >>,
     script |-> << "script", req.blockId >>]

\* the style node put before the markup node
htmlNodesStyleFirst(result) ==
    << Html(result.css), Html(result.html), Html(result.script) >>

\* the nodes that replace the code block
htmlNodes(result) == << Html(result.html), Html(result.css), Html(result.script) >>

\* ------------------------------------------------------------------------
\* State
\* ------------------------------------------------------------------------

VARIABLES
    blockCounter,     \* module-level: let blockCounter = 0
    loadedLanguages,  \* module-level: new Set<string>()
    languagesLoaded,  \* per plugin instance: let languagesLoaded = false
    tree,             \* per call: the children collections of the tree
    doc,              \* per call: the tree as it was handed to the call
    call,             \* per call: position, locals and what it has done
    calls,            \* per instance: transform calls started so far
    hookTotal,        \* per instance: invocations of loadLanguages so far
    hookRaises,       \* per instance: invocations that raised so far
    loadTotal,        \* per language: grammar-load calls so far
    labels,           \* the block labels minted so far, in order
    blocks,           \* code blocks in the documents handed over so far
    raises,           \* how many awaited calls have raised so far
    meta,             \* the argument of a direct parseMetaString call
    parsed            \* what that call gave, once it has been made

vars == << blockCounter, loadedLanguages, languagesLoaded, tree, doc, call,
           calls, hookTotal, hookRaises, loadTotal, labels, blocks, raises,
           meta, parsed >>

\* the variables of the transform
transformVars ==
    << blockCounter, loadedLanguages, languagesLoaded, tree, doc, call,
       calls, hookTotal, hookRaises, loadTotal, labels, blocks, raises >>

EmptyTree == [p \in Parents |-> << >>]

\* a call that has not started.  pc is the await the call is suspended at
\* ("hook", "import", "register", "render") or "idle", "done", "rejected".
\* hookCalls .. renders record what the call has done so far.
IdleCall ==
    [pc           |-> "idle",
     inst         |-> 0,
     detected     |-> << >>,   \* detectedLanguages, in insertion order
     langIdx      |-> 0,       \* position of the for-of over detectedLanguages
     codeBlocks   |-> << >>,   \* codeBlocks after the sort
     blkIdx       |-> 0,       \* position of the for-of over codeBlocks
     flagAtStart  |-> FALSE,   \* languagesLoaded when the call began
     visits       |-> 0,       \* traversals of the tree done
     skipped      |-> {},      \* languages found in the cache by the loop
     hookCalls    |-> 0,       \* invocations of loadLanguages
     hookReturned |-> FALSE,   \* the invocation returned
     loadCalls    |-> << >>,   \* bundledLanguages[lang]() calls, in order
     loadSettled  |-> 0,       \* how many of them have settled
     warnings     |-> << >>,   \* console.warn calls: the languages named
     errors       |-> << >>,   \* console.error calls: the blocks named
     renders      |-> << >>]   \* codeToHighlightHtml calls, in order

\* the language tags of the documents
Languages == {"js", "ts", "custom", "text"}

InitTransform ==
    /\ blockCounter = 0
    /\ loadedLanguages = {}
    /\ languagesLoaded = [i \in Instances |-> FALSE]
    /\ tree = [c \in Calls |-> EmptyTree]
    /\ doc = [c \in Calls |-> EmptyTree]
    /\ call = [c \in Calls |-> IdleCall]
    /\ calls = [i \in Instances |-> 0]
    /\ hookTotal = [i \in Instances |-> 0]
    /\ hookRaises = [i \in Instances |-> 0]
    /\ loadTotal = [lang \in Languages |-> 0]
    /\ labels = << >>
    /\ raises = 0
    /\ blocks = 0

\* no direct parseMetaString call is made beside the transform calls
Init ==
    /\ InitTransform
    /\ meta = << >>
    /\ parsed = Absent

\* ------------------------------------------------------------------------
\* The synchronous stretches of transform, from one await to the next.
\* Each takes the call's locals and the shared state it reads, and gives
\* the locals at the next await together with the new blockCounter.
\* ------------------------------------------------------------------------

\* `hl-${blockCounter}`: the counter read but not advanced
PreIncrementMissing(counter) == counter

\* `hl-${++blockCounter}`
PreIncrement(counter) == counter + 1

RECURSIVE ProcessBlock(_, _, _)
\* the body of the block's try, with metaOptions the outcome of
\* parseMetaString(node.meta): mint the label and call codeToHighlightHtml.
\* When parseMetaString raised, the catch logs the error and the loop goes
\* on: no label is minted and no render call is made.
TryBlock(l, k, counter, metaOptions) ==
    IF metaOptions.raised
    THEN ProcessBlock([l EXCEPT !.errors = Append(@, l.codeBlocks[k].node.id)],
                      k + 1, counter)
    ELSE LET n   == PreIncrement(counter)
             req == RenderRequest(l.codeBlocks[k], l.inst, n, metaOptions)
         IN  [loc |-> [l EXCEPT !.pc = "render", !.blkIdx = k,
                                !.renders = Append(@, [req |-> req,
                                                       outcome |-> "pending"])],
              counter |-> n]

\* the for-of over codeBlocks reaches block k, or leaves the loop
ProcessBlock(l, k, counter) ==
    IF k > Len(l.codeBlocks)
    THEN [loc |-> [l EXCEPT !.pc = "done", !.blkIdx = k], counter |-> counter]
    ELSE TryBlock(l, k, counter, parseMetaString(l.codeBlocks[k].node.meta))

\* second pass, sort, first block
ProcessCodeBlocks(l, t, counter) ==
    ProcessBlock([l EXCEPT !.codeBlocks = collectCodeBlocks(t),
                           !.visits = @ + 1], 1, counter)

\* without `if (loadedLanguages.has(lang)) continue`
NextToLoadIgnoresCache(detected, k, cache) ==
    LET todo == {j \in k..Len(detected) : detected[j] \in bundledLanguages}
    IN  IF todo = {} THEN 0 ELSE CHOOSE j \in todo : \A m \in todo : j <= m

\* without `if (lang in bundledLanguages)`
NextToLoadAnyLanguage(detected, k, cache) ==
    LET todo == {j \in k..Len(detected) : detected[j] \notin cache}
    IN  IF todo = {} THEN 0 ELSE CHOOSE j \in todo : \A m \in todo : j <= m

\* the first language at or after position k that is not in the cache and is
\* a bundled language; 0 when there is none
NextToLoad(detected, k, cache) ==
    LET todo == {j \in k..Len(detected) :
                    /\ detected[j] \notin cache
                    /\ detected[j] \in bundledLanguages}
    IN  IF todo = {} THEN 0 ELSE CHOOSE j \in todo : \A m \in todo : j <= m

\* the grammar load started but not awaited: the transform goes straight on
LoadLanguagesNotAwaited(l, k, cache, t, counter) ==
    LET j == NextToLoad(l.detected, k, cache)
    IN  ProcessCodeBlocks(
            IF j = 0
            THEN [l EXCEPT !.langIdx = Len(l.detected) + 1]
            ELSE [l EXCEPT !.langIdx = j,
                           !.loadCalls = Append(@, l.detected[j])],
            t, counter)

\* the for-of over detectedLanguages reaches position k
LoadLanguagesFrom(l, k, cache, t, counter) ==
    LET j    == NextToLoad(l.detected, k, cache)
        last == IF j = 0 THEN Len(l.detected) ELSE j - 1
        skip == {l.detected[m] : m \in {m \in k..last : l.detected[m] \in cache}}
    IN  IF j = 0
        THEN ProcessCodeBlocks([l EXCEPT !.langIdx = Len(l.detected) + 1,
                                         !.skipped = @ \cup skip],
                               t, counter)
        ELSE [loc |-> [l EXCEPT !.pc = "import", !.langIdx = j,
                                !.skipped = @ \cup skip,
                                !.loadCalls = Append(@, l.detected[j])],
              counter |-> counter]

\* first pass, then the loading loop
AfterHook(l, cache, t, counter) ==
    LoadLanguagesFrom([l EXCEPT !.detected = detectedLanguages(t),
                                !.visits = @ + 1],
                      1, cache, t, counter)

\* if (loadLanguages): the flag not consulted
NeedsHookEveryCall(i, flag) == loadLanguages(i)

\* if (loadLanguages && !languagesLoaded)
NeedsHook(i, flag) == loadLanguages(i) /\ ~flag

\* the flag never set
HookDoneNotRecorded(flags, i) == flags

\* languagesLoaded = true
HookDone(flags, i) == [flags EXCEPT ![i] = TRUE]

\* the raise swallowed: the transform goes on as if the hook had returned
HookFailedSwallowed(l, cache, t, counter) == AfterHook(l, cache, t, counter)

\* await loadLanguages() raised: nothing catches it, the transform rejects
HookFailed(l, cache, t, counter) ==
    [loc |-> [l EXCEPT !.pc = "rejected"], counter |-> counter]

\* a try around the whole loop instead of one block: a raise ends the loop
RenderFailedEndsLoop(l, counter) ==
    [loc |-> [l EXCEPT !.pc = "done"], counter |-> counter]

\* catch of the per-block try: log, keep the node, go on with the next block
RenderFailed(l, counter) ==
    ProcessBlock([l EXCEPT !.errors = Append(@, l.codeBlocks[l.blkIdx].node.id)],
                 l.blkIdx + 1, counter)

\* the load without a try around it: the raise rejects the transform
LoadFailedRejects(l, cache, t, counter) ==
    [loc |-> [l EXCEPT !.pc = "rejected", !.loadSettled = @ + 1],
     counter |-> counter]

\* a raise of the grammar load leaves the loading loop
LoadFailedEndsLoop(l, cache, t, counter) ==
    ProcessCodeBlocks([l EXCEPT !.loadSettled = @ + 1,
                                !.warnings = Append(@, l.detected[l.langIdx])],
                      t, counter)

\* catch of the per-language try: warn, go on with the next language
LoadFailed(l, cache, t, counter) ==
    LoadLanguagesFrom([l EXCEPT !.loadSettled = @ + 1,
                                !.warnings = Append(@, l.detected[l.langIdx])],
                      l.langIdx + 1, cache, t, counter)

\* ------------------------------------------------------------------------
\* Actions
\* ------------------------------------------------------------------------

Settled(c) == call[c].pc \in {"idle", "done", "rejected"}

Started == calls[1] + calls[2]

\* call c, which had locals l, goes on to its next await with locals r.loc;
\* the grammar-load call or the render call it has made on the way is counted
Resume(c, l, r) ==
    /\ call' = [call EXCEPT ![c] = r.loc]
    /\ blockCounter' = r.counter
    /\ loadTotal' =
          IF Len(r.loc.loadCalls) > Len(l.loadCalls)
          THEN [loadTotal EXCEPT
                   ![r.loc.loadCalls[Len(r.loc.loadCalls)]] = @ + 1]
          ELSE loadTotal
    /\ labels' =
          IF Len(r.loc.renders) > Len(l.renders)
          THEN Append(labels, r.loc.renders[Len(r.loc.renders)].req.blockId)
          ELSE labels

\* transform(tree) is called on plugin instance i with document d and runs
\* to its first await
Start(c, i, d) ==
    /\ Started < MaxCalls
    /\ blocks + Len(visit(d)) <= MaxBlocks
    /\ blocks' = blocks + Len(visit(d))
    /\ Settled(c)
    /\ \A b \in Calls : b < c => ~Settled(b)
    /\ tree' = [tree EXCEPT ![c] = d]
    /\ doc' = [doc EXCEPT ![c] = d]
    /\ calls' = [calls EXCEPT ![i] = @ + 1]
    /\ LET l == [IdleCall EXCEPT !.inst = i,
                                 !.flagAtStart = languagesLoaded[i]]
       IN  IF NeedsHook(i, languagesLoaded[i])
           THEN /\ call' = [call EXCEPT ![c] =
                               [l EXCEPT !.pc = "hook", !.hookCalls = @ + 1]]
                /\ hookTotal' = [hookTotal EXCEPT ![i] = @ + 1]
                /\ UNCHANGED << blockCounter, loadTotal, labels >>
           ELSE /\ Resume(c, l, AfterHook(l, loadedLanguages, d, blockCounter))
                /\ UNCHANGED hookTotal
    /\ UNCHANGED << loadedLanguages, languagesLoaded, hookRaises, raises,
                    meta, parsed >>

\* await loadLanguages() returns
HookReturn(c) ==
    /\ call[c].pc = "hook"
    /\ languagesLoaded' = HookDone(languagesLoaded, call[c].inst)
    /\ Resume(c, call[c],
              AfterHook([call[c] EXCEPT !.hookReturned = TRUE],
                        loadedLanguages, tree[c], blockCounter))
    /\ UNCHANGED << loadedLanguages, tree, doc, calls, hookTotal, hookRaises,
                    raises, blocks,
                    meta, parsed >>

\* the flag set in a finally: a raise of the hook counts as a run
HookRaiseRecorded(c) ==
    /\ call[c].pc = "hook"
    /\ raises < MaxRaises
    /\ raises' = raises + 1
    /\ hookRaises' = [hookRaises EXCEPT ![call[c].inst] = @ + 1]
    /\ languagesLoaded' = HookDone(languagesLoaded, call[c].inst)
    /\ Resume(c, call[c],
              HookFailed(call[c], loadedLanguages, tree[c], blockCounter))
    /\ UNCHANGED << loadedLanguages, tree, doc, calls,
                    hookTotal, blocks,
                    meta, parsed >>

\* await loadLanguages() raises
HookRaise(c) ==
    /\ call[c].pc = "hook"
    /\ raises < MaxRaises
    /\ raises' = raises + 1
    /\ hookRaises' = [hookRaises EXCEPT ![call[c].inst] = @ + 1]
    /\ Resume(c, call[c],
              HookFailed(call[c], loadedLanguages, tree[c], blockCounter))
    /\ UNCHANGED << loadedLanguages, languagesLoaded, tree, doc, calls,
                    hookTotal, blocks,
                    meta, parsed >>

\* the loading pass emptying the root's children as the grammar comes in
ImportReturnClearsRoot(c) ==
    /\ call[c].pc = "import"
    /\ call' = [call EXCEPT ![c].pc = "register"]
    /\ tree' = [tree EXCEPT ![c][0] = << >>]
    /\ UNCHANGED << blockCounter, loadedLanguages, languagesLoaded,
                    doc, calls, hookTotal, hookRaises, loadTotal, labels,
                    raises, blocks,
                    meta, parsed >>

\* await bundledLanguages[lang]() returns the grammar module
ImportReturn(c) ==
    /\ call[c].pc = "import"
    /\ call' = [call EXCEPT ![c].pc = "register"]
    /\ UNCHANGED << blockCounter, loadedLanguages, languagesLoaded, tree,
                    doc, calls, hookTotal, hookRaises, loadTotal, labels,
                    raises, blocks,
                    meta, parsed >>

\* await bundledLanguages[lang]() raises: warn, next language
ImportRaise(c) ==
    /\ call[c].pc = "import"
    /\ raises < MaxRaises
    /\ raises' = raises + 1
    /\ Resume(c, call[c],
              LoadFailed(call[c], loadedLanguages, tree[c], blockCounter))
    /\ UNCHANGED << loadedLanguages, languagesLoaded, tree, doc, calls,
                    hookTotal, hookRaises, blocks,
                    meta, parsed >>

\* a cache of one entry: the language loaded last replaces the others
RegisterReturnReplaces(c) ==
    /\ call[c].pc = "register"
    /\ LET lang  == call[c].detected[call[c].langIdx]
           cache == {lang}
       IN  /\ loadedLanguages' = cache
           /\ Resume(c, call[c],
                     LoadLanguagesFrom([call[c] EXCEPT !.loadSettled = @ + 1],
                                       call[c].langIdx + 1, cache,
                                       tree[c], blockCounter))
    /\ UNCHANGED << languagesLoaded, tree, doc, calls, hookTotal, hookRaises,
                    raises, blocks,
                    meta, parsed >>

\* await loadCustomLanguage(langModule) returns: loadedLanguages.add(lang)
RegisterReturn(c) ==
    /\ call[c].pc = "register"
    /\ LET lang  == call[c].detected[call[c].langIdx]
           cache == loadedLanguages \cup {lang}
       IN  /\ loadedLanguages' = cache
           /\ Resume(c, call[c],
                     LoadLanguagesFrom([call[c] EXCEPT !.loadSettled = @ + 1],
                                       call[c].langIdx + 1, cache,
                                       tree[c], blockCounter))
    /\ UNCHANGED << languagesLoaded, tree, doc, calls, hookTotal, hookRaises,
                    raises, blocks,
                    meta, parsed >>

\* await loadCustomLanguage(langModule) raises: warn, next language
RegisterRaise(c) ==
    /\ call[c].pc = "register"
    /\ raises < MaxRaises
    /\ raises' = raises + 1
    /\ Resume(c, call[c],
              LoadFailed(call[c], loadedLanguages, tree[c], blockCounter))
    /\ UNCHANGED << loadedLanguages, languagesLoaded, tree, doc, calls,
                    hookTotal, hookRaises, blocks,
                    meta, parsed >>

\* await codeToHighlightHtml(...) returns: splice the three nodes in place
\* of the block, next block
RenderReturn(c) ==
    /\ call[c].pc = "render"
    /\ LET l      == call[c]
           b      == l.codeBlocks[l.blkIdx]
           n      == Len(l.renders)
           result == codeToHighlightHtml(l.renders[n].req)
       IN  /\ tree' = [tree EXCEPT ![c][b.parent] =
                          splice(@, b.index, 1, htmlNodes(result))]
           /\ Resume(c, l,
                     ProcessBlock([l EXCEPT !.renders[n].outcome = "returned"],
                                  l.blkIdx + 1, blockCounter))
    /\ UNCHANGED << loadedLanguages, languagesLoaded, doc, calls, hookTotal,
                    hookRaises, raises, blocks,
                    meta, parsed >>

\* the splice done before the render is awaited: a raise leaves the block cut
RenderRaiseCutsBlock(c) ==
    /\ call[c].pc = "render"
    /\ raises < MaxRaises
    /\ raises' = raises + 1
    /\ LET l == call[c]
           b == l.codeBlocks[l.blkIdx]
           n == Len(l.renders)
       IN  /\ tree' = [tree EXCEPT ![c][b.parent] =
                          splice(@, b.index, 1, << >>)]
           /\ Resume(c, l,
                     RenderFailed([l EXCEPT !.renders[n].outcome = "raised"],
                                  blockCounter))
    /\ UNCHANGED << loadedLanguages, languagesLoaded, doc, calls,
                    hookTotal, hookRaises, blocks,
                    meta, parsed >>

\* await codeToHighlightHtml(...) raises: log, keep the block, next block
RenderRaise(c) ==
    /\ call[c].pc = "render"
    /\ raises < MaxRaises
    /\ raises' = raises + 1
    /\ LET l == call[c]
           n == Len(l.renders)
       IN  Resume(c, l,
                  RenderFailed([l EXCEPT !.renders[n].outcome = "raised"],
                               blockCounter))
    /\ UNCHANGED << loadedLanguages, languagesLoaded, tree, doc, calls,
                    hookTotal, hookRaises, blocks,
                    meta, parsed >>

Next ==
    \/ \E c \in Calls, i \in Instances, d \in Docs : Start(c, i, d)
    \/ \E c \in Calls : HookReturn(c)
    \/ \E c \in Calls : HookRaise(c)
    \/ \E c \in Calls : ImportReturn(c)
    \/ \E c \in Calls : ImportRaise(c)
    \/ \E c \in Calls : RegisterReturn(c)
    \/ \E c \in Calls : RegisterRaise(c)
    \/ \E c \in Calls : RenderReturn(c)
    \/ \E c \in Calls : RenderRaise(c)

\* transform calls that may overlap at their awaits
Spec == Init /\ [][Next]_vars

\* the call the transform of slot c is suspended at returns or raises
External(c) ==
    \/ HookReturn(c)
    \/ HookRaise(c)
    \/ ImportReturn(c)
    \/ ImportRaise(c)
    \/ RegisterReturn(c)
    \/ RegisterRaise(c)
    \/ RenderReturn(c)
    \/ RenderRaise(c)

\* overlapping transform calls whose awaited calls all settle in the end
LiveSpec == Init /\ [][Next]_vars /\ \A c \in Calls : WF_vars(External(c))

\* the host awaits each transform call before it makes the next one
StartSeq(c, i, d) ==
    /\ \A b \in Calls : Settled(b)
    /\ Start(c, i, d)

NextSeq ==
    \/ \E c \in Calls, i \in Instances, d \in Docs : StartSeq(c, i, d)
    \/ \E c \in Calls : HookReturn(c)
    \/ \E c \in Calls : HookRaise(c)
    \/ \E c \in Calls : ImportReturn(c)
    \/ \E c \in Calls : ImportRaise(c)
    \/ \E c \in Calls : RegisterReturn(c)
    \/ \E c \in Calls : RegisterRaise(c)
    \/ \E c \in Calls : RenderReturn(c)
    \/ \E c \in Calls : RenderRaise(c)

SeqSpec == Init /\ [][NextSeq]_vars

\* ------------------------------------------------------------------------
\* parseMetaString called directly on a meta string
\* ------------------------------------------------------------------------

\* well-formed occurrences of the four directive kinds
HighlightFragments ==
    { << "{", "1", "}" >>,
      << "{", "1", "-", "3", "}" >>,
      << "{", "2", ",", "3", "}" >> }

NumberFragments ==
    { << "showLineNumbers" >>,
      << "lineNumbers" >>,
      << "lineNumbers", ":", "5" >>,
      << "showLineNumbers", ":", "1", "0" >> }

DiffFragments ==
    { << "+", "1", ",", "3" >>,
      << "+", "2" >>,
      << "-", "2" >>,
      << "-", "1", ",", "3" >> }

FocusFragments ==
    { << "focus", "{", "2", ",", "3", "}" >>,
      << "focus", "{", "1", "-", "2", "}" >>,
      << "focus", "{", "3", "-", "1", "}" >>,
      << "focus", "{", "1", "-", "2", ",", "4", "}" >> }

\* brace groups that are not lists of numbers and ranges: {}, {a,b}, {1-}
MalformedFragments ==
    { << "{", "}" >>,
      << "{", "a", ",", "b", "}" >>,
      << "{", "1", "-", "}" >> }

\* a flag with white space before or after its colon
SpacedFragments ==
    { << "lineNumbers", ":", " ", "1", "0" >>,
      << "lineNumbers", " ", ":", "5" >> }

\* white space, a letter, and the punctuation of the directives on its own
OtherFragments ==
    { << " " >>, << "x" >>, << "{" >>, << "}" >>, << "+" >>, << "-" >>,
      << "," >>, << ":" >>, << "1" >>, << "0" >> }

Fragments ==
    HighlightFragments \cup NumberFragments \cup DiffFragments
        \cup FocusFragments \cup MalformedFragments \cup SpacedFragments
        \cup OtherFragments

\* two fragments stand side by side or with a blank between them
Separators == {<< >>, << " " >>}

\* the strings made of at most n fragments
RECURSIVE Concatenations(_)
Concatenations(n) ==
    IF n = 0
    THEN {<< >>}
    ELSE LET shorter == Concatenations(n - 1)
         IN  shorter \cup Fragments
                 \cup {a \o sep \o f : a \in shorter \ {<< >>},
                                       sep \in Separators, f \in Fragments}

\* '{1,3} showLineNumbers:10 +1 focus{1-2}'
MetaCombined ==
    << "{", "1", ",", "3", "}", " ", "showLineNumbers", ":", "1", "0", " ",
       "+", "1", " ", "focus", "{", "1", "-", "2", "}" >>

\* title="example.js": text that is none of the directives
MetaTitle ==
    << "t", "i", "t", "l", "e", "=", "\"", "e", "x", "a", "m", "p", "l", "e",
       ".", "j", "s", "\"" >>

\* longer strings of the README and the tests
MetaSamples == {MetaHugeFocus, MetaCombined, MetaTitle}

MetaStrings == Concatenations(MaxFragments) \cup MetaSamples

InitParse ==
    /\ InitTransform
    /\ meta \in MetaStrings
    /\ parsed = Absent

\* parseMetaString(meta) is called and returns or raises
Parse ==
    /\ parsed = Absent
    /\ parsed' = Some(parseMetaString(meta))
    /\ UNCHANGED << meta, transformVars >>

NextParse == Parse

ParseSpec == InitParse /\ [][NextParse]_vars

\* ------------------------------------------------------------------------
\* Properties
\* ------------------------------------------------------------------------

Range(s) == {s[k] : k \in 1..Len(s)}

\* the code nodes of one children collection
CodeNodes(children) == {k \in 1..Len(children) : children[k].type = "code"}

\* the three nodes a block's render result stands for
Bundle(req) ==
    << [type |-> "html", value |-> << "markup", req.blockId, req.code,
                                      req.lang, req.theme >>],
       [type |-> "html", value |-> << "style", req.blockId >>],
       [type |-> "html", value |-> << "script", req.blockId >> ] >>

\* a children collection in which every code node whose render returned is
\* replaced, in place, by its bundle
RECURSIVE Expected(_, _)
Expected(children, rs) ==
    IF children = << >>
    THEN << >>
    ELSE LET n    == Head(children)
             done == {k \in 1..Len(rs) :
                         rs[k].req.id = n.id /\ rs[k].outcome = "returned"}
         IN  (IF n.type = "code" /\ done # {}
              THEN Bundle(rs[CHOOSE k \in done : TRUE].req)
              ELSE << n >>)
             \o Expected(Tail(children), rs)

Raised(c) == {k \in 1..Len(call[c].renders) :
                 call[c].renders[k].outcome = "raised"}

NumCodeBlocks(t) == Cardinality({pk \in Parents \X (1..4) :
                        pk[2] <= Len(t[pk[1]]) /\ t[pk[1]][pk[2]].type = "code"})

\* C1: when a parent holds N >= 2 code blocks and every render returns, the
\* finished tree has, for each block in document order, exactly that block's
\* markup, style and script nodes in the block's place; no code node is
\* left and the other children keep their order.
C1_BatchOrdering ==
    \A c \in Calls :
        (/\ call[c].pc = "done"
         /\ \E p \in Parents : Cardinality(CodeNodes(doc[c][p])) >= 2
         /\ Raised(c) = {})
        => /\ \A p \in Parents :
                /\ tree[c][p] = Expected(doc[c][p], call[c].renders)
                /\ CodeNodes(tree[c][p]) = {}
                /\ Len(tree[c][p]) =
                      Len(doc[c][p]) + 2 * Cardinality(CodeNodes(doc[c][p]))
           /\ \A j, k \in 1..Len(call[c].renders) :
                j # k => call[c].renders[j].req.blockId
                            # call[c].renders[k].req.blockId

C1_Witness ==
    \E c \in Calls :
        /\ call[c].pc = "done"
        /\ doc[c] = DocFlat
        /\ Raised(c) = {}
        /\ Len(tree[c][0]) = 8

\* C2: when the render of exactly one of N blocks raises, the other N-1
\* blocks are replaced by their bundles and the failing block's code node is
\* still there, unmodified, at the same place relative to its siblings.
C2_FailureIsolation ==
    \A c \in Calls :
        (call[c].pc = "done" /\ Cardinality(Raised(c)) = 1)
        => LET k  == CHOOSE k \in Raised(c) : TRUE
               id == call[c].renders[k].req.id
           IN  /\ Len(call[c].renders) = NumCodeBlocks(doc[c])
               /\ \A p \in Parents :
                    /\ tree[c][p] = Expected(doc[c][p], call[c].renders)
                    /\ \A j \in CodeNodes(tree[c][p]) : tree[c][p][j].id = id
                    /\ \A j \in CodeNodes(doc[c][p]) :
                          doc[c][p][j].id = id
                          => tree[c][p][j + 2 * Cardinality(
                                 {m \in CodeNodes(doc[c][p]) : m < j})]
                             = doc[c][p][j]

C2_Witness ==
    \E c \in Calls :
        /\ call[c].pc = "done"
        /\ Len(call[c].renders) >= 2
        /\ Cardinality(Raised(c)) = 1
        /\ call[c].renders[1].outcome = "raised"

Min(a, b) == IF a <= b THEN a ELSE b

\* C3 as stated: every call on an instance configured with loadLanguages
\* invokes the hook exactly once, also a later call of that instance.
C3_OncePerCall ==
    \A c \in Calls :
        (call[c].pc # "idle" /\ loadLanguages(call[c].inst))
        => call[c].hookCalls = 1

\* C3, amended: a call on an instance configured with loadLanguages invokes
\* the hook at most once whatever the number of code blocks: exactly once
\* when languagesLoaded is false as the call starts, not at all when an
\* earlier invocation by that instance has already returned.
C3_OncePerCallUntilLoaded ==
    \A c \in Calls :
        (call[c].pc # "idle" /\ loadLanguages(call[c].inst))
        => call[c].hookCalls = (IF call[c].flagAtStart THEN 0 ELSE 1)

C3_Witness ==
    \E c \in Calls :
        /\ loadLanguages(call[c].inst)
        /\ call[c].flagAtStart
        /\ call[c].pc = "done"
        /\ Len(call[c].renders) >= 2
        /\ call[c].hookCalls = 0
        /\ hookTotal[call[c].inst] = 1

\* C4 as stated: over non-overlapping calls of one instance the hook is
\* invoked exactly once in total, during the first call.
C4_OnceInTotal ==
    \A i \in Instances :
        (loadLanguages(i) /\ calls[i] >= 1) => hookTotal[i] = 1

\* C4, amended: over non-overlapping calls of one instance the hook is
\* invoked once in each call until an invocation returns and never after:
\* if the hook does not raise, exactly once in total, during the first call.
C4_OnceUntilReturned ==
    \A i \in Instances :
        loadLanguages(i)
        => /\ hookTotal[i] = Min(calls[i], hookRaises[i] + 1)
           /\ languagesLoaded[i] => hookTotal[i] = hookRaises[i] + 1
           /\ \A c \in Calls :
                (call[c].inst = i /\ call[c].hookCalls = 1)
                => hookTotal[i] = calls[i]

C4_Witness ==
    /\ calls[1] = 2
    /\ hookTotal[1] = 1
    /\ hookRaises[1] = 0
    /\ \E c \in Calls : call[c].pc = "done" /\ Len(call[c].renders) >= 2

\* C5: in a call that invokes the hook, the hook has returned before the
\* call traverses the tree, loads a grammar or renders a block.
C5_HookBeforeWork ==
    \A c \in Calls :
        (/\ call[c].hookCalls > 0
         /\ \/ call[c].visits > 0
            \/ call[c].loadCalls # << >>
            \/ call[c].renders # << >>
            \/ call[c].pc \in {"import", "register", "render", "done"})
        => call[c].hookReturned

C5_Witness ==
    \E c \in Calls :
        /\ call[c].hookCalls = 1
        /\ call[c].hookReturned
        /\ call[c].visits = 2
        /\ call[c].loadCalls # << >>
        /\ call[c].renders # << >>

\* C6: every grammar-load call of a transform call has settled, and the
\* loop over the detected languages is over, before its first render call.
C6_LoadsBeforeRender ==
    \A c \in Calls :
        call[c].renders # << >>
        => /\ call[c].loadSettled = Len(call[c].loadCalls)
           /\ call[c].langIdx > Len(call[c].detected)
           /\ call[c].detected = detectedLanguages(doc[c])
           /\ \A k \in 1..Len(call[c].detected) :
                call[c].detected[k] \in bundledLanguages
                => \/ call[c].detected[k] \in call[c].skipped
                   \/ call[c].detected[k] \in Range(call[c].loadCalls)

C6_Witness ==
    \E c \in Calls :
        /\ call[c].pc = "render"
        /\ Len(call[c].renders) = 1
        /\ Len(call[c].loadCalls) = 1
        /\ call[c].loadSettled = 1

Occurrences(s, e) == Cardinality({k \in 1..Len(s) : s[k] = e})

\* the code blocks of a tree tagged with a language
BlocksIn(t, lang) == {k \in 1..Len(visit(t)) : visit(t)[k].node.lang = lang}

\* C7: within one call a bundled language referenced by K >= 2 blocks and
\* not in the cache when the loading loop comes to it gets exactly one
\* grammar-load call.
C7_OneLoadPerLanguage ==
    \A c \in Calls : \A lang \in bundledLanguages :
        Cardinality(BlocksIn(doc[c], lang)) >= 2
        => /\ Occurrences(call[c].loadCalls, lang) <= 1
           /\ call[c].langIdx > Len(call[c].detected)
              => Occurrences(call[c].loadCalls, lang)
                    = (IF lang \in call[c].skipped THEN 0 ELSE 1)

C7_Witness ==
    \E c \in Calls :
        /\ doc[c] = DocFlat
        /\ call[c].pc = "done"
        /\ call[c].loadCalls = << "js" >>
        /\ "js" \notin loadedLanguages

\* C8 as stated: the grammar supply is asked for each language at most
\* once in the process, whatever the outcome of the attempt.
C8_AtMostOneLoad == \A lang \in bundledLanguages : loadTotal[lang] <= 1

\* C8, amended: the grammar supply is never asked for a language that is in
\* the loaded-language cache, so no load is started after a load of the
\* language has succeeded and been recorded; a language whose load raised,
\* or is still awaited by an overlapping call, is asked for again.
C8_NoLoadOnceCached ==
    [][\A lang \in bundledLanguages :
          loadTotal'[lang] > loadTotal[lang]
          => /\ lang \notin loadedLanguages
             /\ lang \notin loadedLanguages'
             /\ loadTotal'[lang] = loadTotal[lang] + 1]_vars

C8_Witness ==
    /\ loadTotal["js"] = 1
    /\ "js" \in loadedLanguages
    /\ calls[1] + calls[2] = 2
    /\ \E c \in Calls :
          /\ doc[c] = DocFlat
          /\ call[c].pc = "done"
          /\ call[c].skipped = {"js"}

\* C9: every render call gets a label greater than every label minted
\* before it, so no two render calls of the process share a label.
C9_LabelsIncrease ==
    /\ \A j, k \in 1..Len(labels) : j < k => labels[j] < labels[k]
    /\ \A c \in Calls : \A k \in 1..Len(call[c].renders) :
          /\ call[c].renders[k].req.blockId \in Range(labels)
          /\ call[c].renders[k].req.blockId <= blockCounter
          /\ \A d \in Calls : \A j \in 1..Len(call[d].renders) :
                (c # d \/ j # k)
                => call[c].renders[k].req.blockId
                      # call[d].renders[j].req.blockId

C9_Witness ==
    \E c, d \in Calls :
        /\ c # d
        /\ call[c].inst # call[d].inst
        /\ Len(call[c].renders) = 2
        /\ Len(call[d].renders) >= 1
        /\ call[c].renders[1].outcome = "raised"
        /\ call[c].renders[1].req.blockId < call[d].renders[1].req.blockId
        /\ call[d].renders[1].req.blockId < call[c].renders[2].req.blockId

\* C10: when a render call returns, the block's code node is replaced by
\* exactly three html nodes carrying the result's html, css and script, in
\* this order, in the block's own parent; nothing else changes.
C10_ReplacementBundle ==
    [][\A c \in Calls :
          LET n == Len(call[c].renders)
          IN  (/\ call[c].pc = "render"
               /\ Len(call'[c].renders) >= n
               /\ call'[c].renders[n].outcome = "returned")
              => LET b   == call[c].codeBlocks[call[c].blkIdx]
                     p   == b.parent
                     i   == b.index + 1
                     res == codeToHighlightHtml(call[c].renders[n].req)
                 IN  /\ tree[c][p][i] = b.node
                     /\ Len(tree'[c][p]) = Len(tree[c][p]) + 2
                     /\ \A j \in 1..(i - 1) : tree'[c][p][j] = tree[c][p][j]
                     /\ tree'[c][p][i] = [type |-> "html", value |-> res.html]
                     /\ tree'[c][p][i + 1] = [type |-> "html", value |-> res.css]
                     /\ tree'[c][p][i + 2] = [type |-> "html", value |-> res.script]
                     /\ \A j \in (i + 1)..Len(tree[c][p]) :
                           tree'[c][p][j + 2] = tree[c][p][j]
                     /\ \A q \in Parents \ {p} : tree'[c][q] = tree[c][q]
                     /\ \A d \in Calls \ {c} : tree'[d] = tree[d]]_vars

C10_Witness ==
    \E c \in Calls : \E k \in 1..Len(call[c].renders) :
        /\ call[c].renders[k].outcome = "returned"
        /\ \E p \in Parents : \E i \in 1..Len(doc[c][p]) :
              /\ doc[c][p][i].type = "code"
              /\ doc[c][p][i].id = call[c].renders[k].req.id
              /\ tree[c][p][i].type = "html"
              /\ tree[c][p][i].value[1] = "markup"
              /\ i < Len(doc[c][p])

\* the meta string of the code node `id` of document t
MetaOf(t, id) ==
    LET bs == visit(t)
    IN  bs[CHOOSE k \in 1..Len(bs) : bs[k].node.id = id].node.meta

\* C11: the lineNumbers value of every render call is the value parsed from
\* the block's meta when the meta enables numbering (true for the plain
\* flag, the start for flag:integer), otherwise the lineNumbers option of
\* the plugin instance, which is absent when the instance has none; a value
\* of the block always wins over the option.
C11_LineNumbersPrecedence ==
    \A c \in Calls : \A k \in 1..Len(call[c].renders) :
        LET req    == call[c].renders[k].req
            m      == MetaOf(doc[c], req.id)
            own    == parseMetaString(m).lineNumbers
            global == globalLineNumbers(call[c].inst)
        IN  /\ (includes(m, "showLineNumbers") \/ includes(m, "lineNumbers"))
                   <=> own # Absent
            /\ own # Absent => req.lineNumbers = own
            /\ own = Absent => req.lineNumbers = global
            /\ m = MetaStart => req.lineNumbers = LineNumbersStart(5)
            /\ m = MetaFlag => req.lineNumbers = LineNumbersTrue

\* an instance with the option { start: 100 } has rendered a block whose
\* meta says lineNumbers:5 and a block without meta
C11_Witness ==
    \E c \in Calls :
        /\ call[c].pc = "done"
        /\ globalLineNumbers(call[c].inst) = LineNumbersStart(100)
        /\ \E j, k \in 1..Len(call[c].renders) :
              /\ MetaOf(doc[c], call[c].renders[j].req.id) = MetaStart
              /\ call[c].renders[j].req.lineNumbers = LineNumbersStart(5)
              /\ MetaOf(doc[c], call[c].renders[k].req.id) = << >>
              /\ call[c].renders[k].req.lineNumbers = LineNumbersStart(100)

\* C12 as stated: no transform call ever raises, whichever external call
\* fails.
C12_NeverRejects == \A c \in Calls : call[c].pc # "rejected"

\* C12: a transform call raises only when its loadLanguages hook raised, and
\* then it has made no grammar-load call and no render call and its tree is
\* as it was handed over.  A failing grammar load or render is handled
\* inside the call: the call completes, and in the finished tree exactly the
\* blocks whose render returned are converted, the others are unchanged.
C12_OnlyHookRejects ==
    \A c \in Calls :
        /\ call[c].pc = "rejected"
              => /\ call[c].hookCalls = 1
                 /\ ~call[c].hookReturned
                 /\ call[c].loadCalls = << >>
                 /\ call[c].renders = << >>
                 /\ tree[c] = doc[c]
        /\ call[c].pc = "done"
              => \A p \in Parents :
                     tree[c][p] = Expected(doc[c][p], call[c].renders)

\* a call whose grammar load raised has completed, with every block rendered
\* and converted
C12_Witness ==
    \E c \in Calls :
        /\ call[c].pc = "done"
        /\ call[c].warnings # << >>
        /\ Len(call[c].renders) = NumCodeBlocks(doc[c])
        /\ \A p \in Parents : CodeNodes(tree[c][p]) = {}

\* the ids of the blocks a call has passed to the render collaborator
Rendered(c) == {call[c].renders[k].req.id : k \in 1..Len(call[c].renders)}

\* the ids of the code blocks of document t
BlockIds(t) == {visit(t)[k].node.id : k \in 1..Len(visit(t))}

\* C13: when the grammar load of a language raises in a call, a warning
\* naming it is emitted, the failed load does not put the language into the
\* cache, every other discovered bundled language is still loaded (or was
\* found in the cache), and every code block of the document, those of the
\* failed language included, gets its render call.
C13_LoadFailureIsolated ==
    \A c \in Calls :
        LET l == call[c]
        IN  /\ Occurrences(l.warnings, "js") + Occurrences(l.warnings, "ts")
                   = Len(l.warnings)
            /\ \A w \in Range(l.warnings) :
                  /\ w \in Range(l.loadCalls)
                  /\ loadTotal[w] = 1 => w \notin loadedLanguages
            /\ (l.warnings # << >> /\ l.pc \in {"render", "done"})
                  => \A lang \in Range(l.detected) \cap bundledLanguages :
                         lang \in Range(l.loadCalls) \cup l.skipped
            /\ (l.warnings # << >> /\ l.pc = "done")
                  => Rendered(c) = BlockIds(doc[c])

\* the load of 'ts' raised, 'js' after it was loaded and cached, and all
\* four blocks of the document were rendered
C13_Witness ==
    \E c \in Calls :
        /\ call[c].pc = "done"
        /\ doc[c] = DocNested
        /\ call[c].warnings = << "ts" >>
        /\ call[c].loadCalls = << "ts", "js" >>
        /\ "js" \in loadedLanguages
        /\ "ts" \notin loadedLanguages
        /\ Rendered(c) = {"a", "b", "c", "d"}

\* C14: for a discovered language that is not bundled there is no
\* grammar-load call, no warning and no entry in the cache; its blocks are
\* passed to the render collaborator under that language.
C14_UnbundledSkipped ==
    \A lang \in Languages \ bundledLanguages :
        /\ loadTotal[lang] = 0
        /\ lang \notin loadedLanguages
        /\ \A c \in Calls :
              /\ lang \notin Range(call[c].loadCalls)
              /\ lang \notin Range(call[c].warnings)
              /\ (call[c].pc = "done" /\ lang \in Range(call[c].detected))
                    => \A k \in BlocksIn(doc[c], lang) :
                           \E j \in 1..Len(call[c].renders) :
                               /\ call[c].renders[j].req.id
                                      = visit(doc[c])[k].node.id
                               /\ call[c].renders[j].req.lang = lang

\* a call that discovered 'custom' has finished, with the 'custom' block
\* rendered and replaced
C14_Witness ==
    \E c \in Calls :
        /\ call[c].pc = "done"
        /\ "custom" \in Range(call[c].detected)
        /\ \E j \in 1..Len(call[c].renders) :
              /\ call[c].renders[j].req.lang = "custom"
              /\ call[c].renders[j].outcome = "returned"
        /\ loadTotal["custom"] = 0

\* the language tag of the code node `id` of document t; "" when absent
LangOf(t, id) ==
    LET bs == visit(t)
    IN  bs[CHOOSE k \in 1..Len(bs) : bs[k].node.id = id].node.lang

\* C15: a code block without a language is rendered with the language tag
\* 'text' (and every other block with its own tag), and no grammar-load
\* call is made for an absent language or for 'text': a call loads only
\* languages that tag one of its blocks and are neither.
C15_TextDefault ==
    /\ loadTotal["text"] = 0
    /\ \A c \in Calls :
          /\ \A k \in 1..Len(call[c].renders) :
                LET req == call[c].renders[k].req
                IN  req.lang = IF LangOf(doc[c], req.id) = ""
                               THEN "text"
                               ELSE LangOf(doc[c], req.id)
          /\ \A k \in 1..Len(call[c].loadCalls) :
                /\ call[c].loadCalls[k] \notin {"", "text"}
                /\ BlocksIn(doc[c], call[c].loadCalls[k]) # {}

\* the block without a language has been rendered as 'text' and replaced
C15_Witness ==
    \E c \in Calls : \E k \in 1..Len(call[c].renders) :
        /\ LangOf(doc[c], call[c].renders[k].req.id) = ""
        /\ call[c].renders[k].req.lang = "text"
        /\ call[c].renders[k].outcome = "returned"
        /\ call[c].pc = "done"

\* C16: for every meta string, a call of parseMetaString returns a directive
\* set; it never raises.
C16_ParseNeverRaises == parsed # Absent => ~parsed[1].raised

\* the four directive kinds: the well-formed occurrences of a kind and the
\* field of the parse result that the kind sets
DirectiveKinds == {"highlight", "number", "diff", "focus"}

Occurrence(kind) ==
    CASE kind = "highlight" -> HighlightFragments
      [] kind = "number"    -> NumberFragments
      [] kind = "diff"      -> DiffFragments
      [] kind = "focus"     -> FocusFragments

Field(options, kind) ==
    CASE kind = "highlight" -> options.highlightLines
      [] kind = "number"    -> options.lineNumbers
      [] kind = "diff"      -> options.diffLines
      [] kind = "focus"     -> options.focusLines

\* C17: when the meta string is a well-formed occurrence of one directive
\* kind followed, directly or after a blank, by a well-formed occurrence of
\* another kind, the parsed value of each of the two is the value parsed
\* from that occurrence alone, in either order of the kinds.
C17_DirectivesIndependent ==
    parsed # Absent =>
        \A j, k \in DirectiveKinds :
            \A a \in Occurrence(j), b \in Occurrence(k), sep \in Separators :
                (j # k /\ meta = a \o sep \o b)
                    => /\ ~parsed[1].raised
                       /\ Field(parsed[1], j) = Field(parseMetaString(a), j)
                       /\ Field(parsed[1], k) = Field(parseMetaString(b), k)

\* the positions of the brace groups {...} of a string whose content is a
\* non-empty list of digits, commas and hyphens
BraceGroups(s) ==
    {i \in 1..Len(s) : MatchesAt(s, i, << "{" >>, RangeListClass, TRUE)}

\* the brace groups that are the braces of a focus{...} group
FocusGroups(s) == {i \in BraceGroups(s) : i > 1 /\ s[i - 1] = "focus"}

\* the leftmost of a non-empty set of positions
First(P) == CHOOSE i \in P : \A j \in P : i <= j

\* the text between the braces of the group at position i
GroupContent(s, i) == SubSeq(s, i + 1, i + Run(s, i + 1, RangeListClass))

\* C18: a focus{...} group does not set highlightLines: the field is absent
\* when every brace group of the meta string belongs to a focus group, and
\* otherwise it is the content of the first brace group that does not, also
\* when a focus group stands before it.
C18_FocusNotHighlight ==
    (parsed # Absent /\ ~parsed[1].raised) =>
        LET own == BraceGroups(meta) \ FocusGroups(meta)
        IN  parsed[1].highlightLines =
                IF own = {}
                THEN Absent
                ELSE Some(GroupContent(meta, First(own)))

\* position i lies between the braces of a brace group
InsideBraces(s, i) ==
    \E g \in BraceGroups(s) : g < i /\ i <= g + Run(s, g + 1, RangeListClass)

\* the positions of the + lists, and of the - lists that stand outside the
\* brace groups
AddLists(s) ==
    {i \in 1..Len(s) : MatchesAt(s, i, << "+" >>, ListClass, FALSE)}

RemoveLists(s) ==
    {i \in 1..Len(s) : /\ MatchesAt(s, i, << "-" >>, ListClass, FALSE)
                       /\ ~InsideBraces(s, i)}

\* C19: a hyphen inside a highlight or focus range is no diff mark: for a
\* meta string without a - list outside the brace groups the removed lines
\* are absent, and without a + list either diffLines is absent.
C19_RangeHyphenNoDiff ==
    (parsed # Absent /\ ~parsed[1].raised) =>
        /\ RemoveLists(meta) = {}
              => \/ parsed[1].diffLines = Absent
                 \/ parsed[1].diffLines[1].removed = Absent
        /\ (RemoveLists(meta) = {} /\ AddLists(meta) = {})
              => parsed[1].diffLines = Absent

EnclosedGroups(s) ==
    {i \in 1..Len(s) :
        /\ s[i] = "{"
        /\ \E j \in (i + 1)..Len(s) :
               /\ s[j] = "}"
               /\ \A k \in (i + 1)..(j - 1) : s[k] \notin {"{", "}"}}

\* the text between the braces of the enclosed group at position i
EnclosedContent(s, i) ==
    LET j == CHOOSE k \in (i + 1)..Len(s) :
                 s[k] = "}" /\ \A h \in (i + 1)..(k - 1) : s[h] # "}"
    IN  SubSeq(s, i + 1, j - 1)

\* a number, or a range number-number
IsNumber(t) == t # << >> /\ \A k \in 1..Len(t) : t[k] \in Digits

IsNumberOrRange(t) ==
    \/ IsNumber(t)
    \/ \E k \in 1..Len(t) :
          /\ t[k] = "-"
          /\ IsNumber(SubSeq(t, 1, k - 1))
          /\ IsNumber(SubSeq(t, k + 1, Len(t)))

\* a comma-separated list of numbers and number-number ranges
WellFormedList(t) ==
    LET parts == split(t, ",")
    IN  \A k \in 1..Len(parts) : IsNumberOrRange(parts[k])

\* C21: when the first brace-enclosed group of the meta string is empty or
\* is not a well-formed list of numbers and number-number ranges,
\* highlightLines is absent from the parse result.
C21_MalformedGroupRejected ==
    (parsed # Absent /\ ~parsed[1].raised /\ EnclosedGroups(meta) # {}) =>
        (~WellFormedList(EnclosedContent(meta, First(EnclosedGroups(meta))))
            => parsed[1].highlightLines = Absent)

\* the two flag words of line numbering
FlagWords == {"showLineNumbers", "lineNumbers"}

\* the positions where a flag word is directly followed by a colon and a
\* decimal digit, and the number written there
StartPositions(s) ==
    {i \in 1..(Len(s) - 2) :
        s[i] \in FlagWords /\ s[i + 1] = ":" /\ s[i + 2] \in Digits}

StartValue(s, i) ==
    DigitsValue(SubSeq(s, i + 2, i + 1 + Run(s, i + 2, Digits)))

\* C22: line numbering is enabled exactly when the meta string contains the
\* word showLineNumbers or lineNumbers; its start is the integer N where a
\* flag word is directly followed by ':' and the digits of N, and it is
\* plainly enabled when no flag word is followed in that way (the flag
\* stands alone, or white space separates flag, colon and number).
C22_LineNumbersFlag ==
    (parsed # Absent /\ ~parsed[1].raised) =>
        LET flagged == \E i \in 1..Len(meta) : meta[i] \in FlagWords
            ln      == parsed[1].lineNumbers
        IN  /\ (ln # Absent) <=> flagged
            /\ flagged =>
                  IF StartPositions(meta) = {}
                  THEN ln = LineNumbersTrue
                  ELSE \E i \in StartPositions(meta) :
                          ln = LineNumbersStart(StartValue(meta, i))

\* 'lineNumbers: 10' has been parsed: numbering is on without a start
C22_Witness ==
    /\ meta = << "lineNumbers", ":", " ", "1", "0" >>
    /\ parsed # Absent
    /\ parsed[1].lineNumbers = LineNumbersTrue

\* the positions of the - lists, wherever they stand
MinusLists(s) ==
    {i \in 1..Len(s) : MatchesAt(s, i, << "-" >>, ListClass, FALSE)}

\* the text of the list after the mark at position i, and its numbers when
\* it is a list of integers separated by single commas
ListContent(s, i) == SubSeq(s, i + 1, i + Run(s, i + 1, ListClass))

IsIntegerList(t) ==
    LET parts == split(t, ",")
    IN  \A k \in 1..Len(parts) : IsNumber(parts[k])

Integers(t) ==
    LET parts == split(t, ",")
    IN  [k \in 1..Len(parts) |-> DigitsValue(parts[k])]

\* every + list and every - list of the string is a list of integers
DiffListsWellFormed(s) ==
    \A i \in AddLists(s) \cup MinusLists(s) :
        IsIntegerList(ListContent(s, i))

PlusFragments == {f \in DiffFragments : Head(f) = "+"}

MinusFragments == {f \in DiffFragments : Head(f) = "-"}

MarkBeforeDigit(s, mark) ==
    \E i \in 1..(Len(s) - 1) : s[i] = mark /\ s[i + 1] \in Digits

\* C24: a + or a - that is not directly followed by a digit yields no diff
\* entry: without a + before a digit the added lines are absent, without a
\* - before a digit the removed lines are absent, and diffLines is absent
\* when both are.
C24_MarkNeedsDigit ==
    (parsed # Absent /\ ~parsed[1].raised) =>
        LET d == parsed[1].diffLines
        IN  /\ ~MarkBeforeDigit(meta, "+") =>
                  (d = Absent \/ d[1].added = Absent)
            /\ ~MarkBeforeDigit(meta, "-") =>
                  (d = Absent \/ d[1].removed = Absent)
            /\ (~MarkBeforeDigit(meta, "+") /\ ~MarkBeforeDigit(meta, "-"))
                  => d = Absent

\* every element of an optional list of numbers is a positive integer
AllPositive(field) ==
    field # Absent => \A k \in 1..Len(field[1]) : field[1][k] >= 1

\* C25: every number of the added, removed and focusLines fields of a parse
\* result is a 1-indexed line number: a positive integer, never 0, never
\* negative, never not-a-number.
C25_LineNumbersPositive ==
    (parsed # Absent /\ ~parsed[1].raised) =>
        /\ parsed[1].diffLines # Absent =>
              /\ AllPositive(parsed[1].diffLines[1].added)
              /\ AllPositive(parsed[1].diffLines[1].removed)
        /\ AllPositive(parsed[1].focusLines)

\* the positions of the focus{...} groups the focus pattern matches, and the
\* text between the braces
FocusMatches(s) ==
    {i \in 1..Len(s) :
        MatchesAt(s, i, << "focus", "{" >>, RangeListClass, TRUE)}

FocusContent(s, i) == SubSeq(s, i + 2, i + 1 + Run(s, i + 2, RangeListClass))

\* the two numbers of a range a-b, as written
RangeLow(t) ==
    LET k == CHOOSE j \in 1..Len(t) : t[j] = "-"
    IN  SubSeq(t, 1, k - 1)

RangeHigh(t) ==
    LET k == CHOOSE j \in 1..Len(t) : t[j] = "-"
    IN  SubSeq(t, k + 1, Len(t))

\* a <= b for two numbers written in decimal digits, of any size
RECURSIVE DigitsLeq(_, _)
DigitsLeq(a, b) ==
    IF a = << >> THEN TRUE
    ELSE IF DigitValue(Head(a)) # DigitValue(Head(b))
    THEN DigitValue(Head(a)) < DigitValue(Head(b))
    ELSE DigitsLeq(Tail(a), Tail(b))

NumberLeq(a, b) ==
    LET sa == Significant(a)
        sb == Significant(b)
    IN  Len(sa) < Len(sb) \/ (Len(sa) = Len(sb) /\ DigitsLeq(sa, sb))

\* a list of single numbers and of ranges written low to high
LowToHighList(t) ==
    LET parts == split(t, ",")
    IN  \A k \in 1..Len(parts) :
           /\ IsNumberOrRange(parts[k])
           /\ ~IsNumber(parts[k]) =>
                  NumberLeq(RangeLow(parts[k]), RangeHigh(parts[k]))

\* the single numbers, and every integer of each range, in the order written
RECURSIVE Expansion(_)
Expansion(parts) ==
    IF parts = << >>
    THEN << >>
    ELSE LET t  == Head(parts)
             lo == DigitsValue(RangeLow(t))
             hi == DigitsValue(RangeHigh(t))
         IN  (IF IsNumber(t)
              THEN << DigitsValue(t) >>
              ELSE [k \in 1..(hi - lo + 1) |-> lo + k - 1])
             \o Expansion(Tail(parts))

\* C26: for a focus group made of single numbers and low-to-high ranges,
\* focusLines is the list of the single numbers and of every integer of
\* each range a-b from a to b inclusive, in the order written.
C26_FocusExpansion ==
    (parsed # Absent /\ FocusMatches(meta) # {}) =>
        LET t == FocusContent(meta, First(FocusMatches(meta)))
        IN  LowToHighList(t) =>
                /\ ~parsed[1].raised
                /\ parsed[1].focusLines = Some(Expansion(split(t, ",")))

\* the expansion holds whenever the parse returns: only a range too long to
\* be built as an array departs from it
FocusExpansionWhenReturned ==
    (parsed # Absent /\ ~parsed[1].raised) => C26_FocusExpansion

\* the string holds none of the four directive patterns
NoDirective(s) ==
    /\ BraceGroups(s) = {}
    /\ \A i \in 1..Len(s) : s[i] \notin FlagWords
    /\ AddLists(s) = {}
    /\ MinusLists(s) = {}
    /\ FocusMatches(s) = {}

\* C27: for an absent, empty or blank meta string, and for one that holds
\* none of the four directive patterns, parseMetaString returns a directive
\* set with every field absent, so that the render call of such a block gets
\* the line numbering of the plugin options and no other directive.
C27_NoDirectiveNoFields ==
    (parsed # Absent /\ NoDirective(meta)) =>
        /\ parsed[1] = NoOptions
        /\ \A i \in Instances :
              LET req == RenderRequest([node |-> Code("a", "js", meta)], i,
                                       "hl-1", parsed[1])
              IN  /\ req.lineNumbers = globalLineNumbers(i)
                  /\ req.highlightLines = Absent
                  /\ req.diffLines = Absent
                  /\ req.focusLines = Absent

\* 'title="example.js"' has been parsed: no field is set
C27_Witness ==
    /\ meta = MetaTitle
    /\ parsed = Some(NoOptions)

\* C28: at the moment a block is spliced, the child at the block's recorded
\* index in its recorded parent is the block's own original code node, in
\* every tree shape and whichever of the earlier renders failed.
C28_SpliceHitsOwnNode ==
    [][\A c \in Calls :
          (call[c].pc = "render" /\ tree'[c] # tree[c]) =>
              LET b == call[c].codeBlocks[call[c].blkIdx]
              IN  /\ b.index + 1 <= Len(tree[c][b.parent])
                  /\ tree[c][b.parent][b.index + 1] = b.node
                  /\ doc[c][b.parent][b.index + 1] = b.node]_vars

\* the nested document is finished: one render raised and the other three
\* blocks, in three different parents, were spliced
C28_Witness ==
    \E c \in Calls :
        /\ call[c].pc = "done"
        /\ doc[c] = DocNested
        /\ Cardinality(Raised(c)) = 1
        /\ Len(call[c].renders) = 4
        /\ \E p \in Parents : Len(tree[c][p]) > Len(doc[c][p])

\* two different calls are both suspended at an await: they overlap
Overlapping(c1, c2) == c1 # c2 /\ ~Settled(c1) /\ ~Settled(c2)

\* C29: when two transform calls of the same plugin instance overlap, the
\* hook loadLanguages is invoked at most once across both calls.
C29_HookOnceUnderOverlap ==
    \A c1, c2 \in Calls :
        (/\ Overlapping(c1, c2)
         /\ call[c1].inst = call[c2].inst
         /\ loadLanguages(call[c1].inst))
        => call[c1].hookCalls + call[c2].hookCalls <= 1

\* C30: when two transform calls overlap and both reference the same
\* bundled language, not in the cache before, and no load of it raises, the
\* grammar of that language is loaded once across both calls, not twice.
C30_LoadOnceUnderOverlap ==
    \A c1, c2 \in Calls : \A lang \in bundledLanguages :
        (/\ Overlapping(c1, c2)
         /\ lang \notin Range(call[c1].warnings)
         /\ lang \notin Range(call[c2].warnings))
        => Occurrences(call[c1].loadCalls, lang)
              + Occurrences(call[c2].loadCalls, lang) <= 1

\* the hook of call c has raised
HookRaised(c) ==
    call[c].pc = "rejected" /\ call[c].hookCalls = 1 /\ ~call[c].hookReturned

\* the ids of the blocks of a rendered sequence, in the order of the calls
RenderedIds(c) == [k \in 1..Len(call[c].renders) |-> call[c].renders[k].req.id]

\* every code block of the document of call c has had exactly one render call
EachBlockRenderedOnce(c) ==
    /\ Len(call[c].renders) = Len(visit(doc[c]))
    /\ \A k \in 1..Len(visit(doc[c])) :
          Occurrences(RenderedIds(c), visit(doc[c])[k].node.id) = 1

\* C31: when every awaited call returns or raises in the end and the hook
\* does not raise, a transform call completes, and by then every code block
\* found in the tree has had exactly one render call: none is skipped, none
\* is rendered twice.
C31_CompletesEachBlockOnce ==
    /\ \A c \in Calls : ~Settled(c) ~> (call[c].pc = "done" \/ HookRaised(c))
    /\ [](\A c \in Calls : call[c].pc = "done" => EachBlockRenderedOnce(c))

\* the blocks whose meta string parseMetaString returns for
BlocksParsed(c) ==
    {k \in 1..Len(visit(doc[c])) :
        ~parseMetaString(visit(doc[c])[k].node.meta).raised}

\* a finished call has made one render call for each block whose meta string
\* is parsed: only a block whose parse raises goes without its render call
EachParsedBlockRenderedOnce ==
    \A c \in Calls : call[c].pc = "done" =>
        /\ Len(call[c].renders) = Cardinality(BlocksParsed(c))
        /\ \A k \in BlocksParsed(c) :
              Occurrences(RenderedIds(c), visit(doc[c])[k].node.id) = 1

\* the render calls of a call's locals that raised
RaisedIn(l) == {k \in 1..Len(l.renders) : l.renders[k].outcome = "raised"}

\* the block labels carried by the html nodes of a tree
LabelsIn(t) ==
    UNION {{t[p][k].value[2] :
               k \in {j \in 1..Len(t[p]) : t[p][j].type = "html"}} :
           p \in Parents}

\* C32: a render call that raises changes nothing in the tree: every parent
\* collection has the same children in the same order before and after the
\* step, and none of the three replacement nodes is inserted for the block.
C32_RenderRaiseKeepsTree ==
    [][\A c \in Calls :
          /\ (call[c].pc = "render" /\ RaisedIn(call'[c]) # RaisedIn(call[c]))
                => tree' = tree
          /\ \A k \in RaisedIn(call'[c]) :
                call'[c].renders[k].req.blockId \notin LabelsIn(tree'[c])]_vars

\* a render has raised between two renders that returned: the block's code
\* node is still in the tree, with the replacement nodes of the others
C32_Witness ==
    \E c \in Calls :
        /\ call[c].pc = "done"
        /\ doc[c] = DocNested
        /\ RaisedIn(call[c]) = {2}
        /\ \E p \in Parents : CodeNodes(tree[c][p]) # {}
        /\ Cardinality(LabelsIn(tree[c])) = 3

\* C33: when loadLanguages raises, the transform call ends without having
\* changed the tree, the loaded-language cache or the block counter, the
\* hook is not recorded as having run, and the next transform call of the
\* same plugin instance (made when every invocation so far has raised)
\* invokes loadLanguages again.
C33_HookRaiseLeavesState ==
    [][/\ \A c \in Calls :
             (call[c].pc = "hook" /\ call'[c].pc = "rejected") =>
                 /\ tree' = tree
                 /\ tree'[c] = doc[c]
                 /\ loadedLanguages' = loadedLanguages
                 /\ blockCounter' = blockCounter
                 /\ languagesLoaded' = languagesLoaded
                 /\ call'[c].loadCalls = << >>
                 /\ call'[c].renders = << >>
       /\ \A i \in Instances :
             (/\ calls'[i] = calls[i] + 1
              /\ hookRaises[i] >= 1
              /\ hookRaises[i] = hookTotal[i])
             => /\ hookTotal'[i] = hookTotal[i] + 1
                /\ \E c \in Calls :
                      /\ call'[c].pc = "hook"
                      /\ call'[c].inst = i
                      /\ call'[c].hookCalls = 1]_vars

\* the hook raised in the first call of the instance and has been invoked
\* again by the second
C33_Witness ==
    /\ calls[1] = 2
    /\ hookRaises[1] = 1
    /\ hookTotal[1] = 2
    /\ ~languagesLoaded[1]
    /\ blockCounter = 0
    /\ loadedLanguages = {}

\* C34: the loaded-language cache only grows: an identifier once added is
\* never removed, and an identifier enters the cache only in the step in
\* which a grammar-load call for it succeeds (import and registration have
\* both returned, no warning is logged).
C34_CacheOnlyGrows ==
    [][/\ loadedLanguages \subseteq loadedLanguages'
       /\ \A lang \in loadedLanguages' \ loadedLanguages :
             /\ lang \in bundledLanguages
             /\ loadTotal[lang] >= 1
             /\ \E c \in Calls :
                   /\ call[c].pc = "register"
                   /\ call[c].detected[call[c].langIdx] = lang
                   /\ call'[c].loadSettled = call[c].loadSettled + 1
                   /\ call'[c].warnings = call[c].warnings]_vars

\* two grammars were loaded one after the other and both are in the cache
C34_Witness ==
    /\ loadedLanguages = {"js", "ts"}
    /\ loadTotal["js"] = 1
    /\ loadTotal["ts"] = 1

\* a range a-b written high to low: a > b
HighToLow(t) ==
    /\ IsNumberOrRange(t)
    /\ ~IsNumber(t)
    /\ ~NumberLeq(RangeLow(t), RangeHigh(t))

NotHighToLow(t) == ~HighToLow(t)

\* C35: a focus range written high to low parses without raising and
\* contributes no line numbers: focusLines holds what the other parts of
\* the group give, and focus{3-1} alone yields focusLines present but empty.
C35_HighToLowRangeEmpty ==
    (parsed # Absent /\ FocusMatches(meta) # {}) =>
        LET parts == split(FocusContent(meta, First(FocusMatches(meta))), ",")
        IN  (/\ \A k \in 1..Len(parts) : IsNumberOrRange(parts[k])
             /\ \E k \in 1..Len(parts) : HighToLow(parts[k]))
            => /\ ~parsed[1].raised
               /\ parsed[1].focusLines # Absent
               /\ parsed[1].focusLines =
                      Some(Expansion(SelectSeq(parts, NotHighToLow)))

\* 'focus{3-1}' has been parsed: focusLines is there and empty
C35_Witness ==
    /\ meta = << "focus", "{", "3", "-", "1", "}" >>
    /\ parsed # Absent
    /\ ~parsed[1].raised
    /\ parsed[1].focusLines = Some(<< >>)

\* the recorded block (node, index, parent) a render call of call c is for
BlockOf(c, k) ==
    CHOOSE b \in Range(call[c].codeBlocks) :
        b.node.id = call[c].renders[k].req.id

\* C36: the render calls of a transform call are made in descending order
\* of the blocks' recorded positions, so that the labels run against
\* document order: of two blocks in the same parent, the one later in the
\* document is rendered first and carries the smaller label.
C36_RenderOrderDescending ==
    \A c \in Calls : \A j, k \in 1..Len(call[c].renders) :
        j < k =>
            /\ BlockOf(c, j).index >= BlockOf(c, k).index
            /\ BlockOf(c, j).parent = BlockOf(c, k).parent =>
                  /\ BlockOf(c, j).index > BlockOf(c, k).index
                  /\ call[c].renders[j].req.blockId
                         < call[c].renders[k].req.blockId

\* the two blocks of the flat document were rendered, the second one first
C36_Witness ==
    \E c \in Calls :
        /\ doc[c] = DocFlat
        /\ call[c].pc = "done"
        /\ RenderedIds(c) = << "b", "a" >>
        /\ call[c].renders[1].req.blockId < call[c].renders[2].req.blockId

\* C37: when the meta string holds several flags with an explicit start,
\* the start is that of the first flag:integer occurrence; a bare flag that
\* stands before a flag:integer form does not keep the start from being
\* used.
C37_FirstExplicitStart ==
    (parsed # Absent /\ ~parsed[1].raised /\ StartPositions(meta) # {}) =>
        parsed[1].lineNumbers =
            LineNumbersStart(StartValue(meta, First(StartPositions(meta))))

\* 'lineNumbers:5 showLineNumbers:10' has been parsed: the start is 5
C37_Witness ==
    /\ meta = << "lineNumbers", ":", "5", " ", "showLineNumbers", ":", "1", "0" >>
    /\ parsed # Absent
    /\ parsed[1].lineNumbers = LineNumbersStart(5)

\* 'lineNumbers showLineNumbers:10' has been parsed: the bare flag first,
\* and the start is 10
BareFlagThenStart ==
    /\ meta = << "lineNumbers", " ", "showLineNumbers", ":", "1", "0" >>
    /\ parsed # Absent
    /\ parsed[1].lineNumbers = LineNumbersStart(10)

\* the render calls of call c that have returned
Returned(c) == {k \in 1..Len(call[c].renders) :
                   call[c].renders[k].outcome = "returned"}

\* C38: the hook step, both traversal passes and the language-loading pass
\* leave the tree unchanged: every parent collection is as it was before the
\* transform until the splice of the first render that returns.
C38_TreeUnchangedBeforeSplice ==
    \A c \in Calls : Returned(c) = {} => tree[c] = doc[c]

\* the hook has returned, both passes are done, a grammar was loaded and the
\* first render is awaited: the tree is still the document
C38_Witness ==
    \E c \in Calls :
        /\ call[c].pc = "render"
        /\ doc[c] = DocFlat
        /\ call[c].hookReturned
        /\ call[c].visits = 2
        /\ call[c].loadSettled = 1
        /\ Returned(c) = {}
        /\ tree[c] = DocFlat

====
